---- MODULE Spec2Model ----
(***************************************************************************)
(* vt::drift_tree and vt::subtree (vector_tree/drift_tree.h).              *)
(*                                                                         *)
(* The tree is the std::vector of drift_node <drift, data>.  Positions are *)
(* the 0-based offsets from begin(), as in the source; the sequence `tree` *)
(* is 1-based, so the node at position i is tree[i + 1] and end() is the   *)
(* position Len(tree).                                                     *)
(*                                                                         *)
(* drift_t and level_t are size_t.  Every stored drift is checked to stay  *)
(* a natural number (TypeOK), so that the integer arithmetic below agrees  *)
(* with the arithmetic modulo 2^64 of the source.                          *)
(*                                                                         *)
(* assert() is modelled as compiled in: a failing assert aborts the        *)
(* program (status "assert") before the statement that follows it.         *)
(***************************************************************************)
EXTENDS Integers, Sequences, FiniteSets, TLC

VARIABLES tree, status, old, op, view

vars == <<tree, status, old, op, view>>

\* ---------------------------------------------------------------- bounds
\* the most nodes the vector is grown to
MaxSize == 4

\* back_drift and level arguments, and the values read past the vector
Args == 0..MaxSize

\* data_t values handed to the operations
DataValues == {1, 2}

\* ------------------------------------------------------------ drift_node
DRIFT_CHILD == 0
DRIFT_SIBLING == 1

drift_node(drift, data) == [drift |-> drift, data |-> data]

is_leaf(node) == node.drift # 0
has_children(node) == node.drift = 0

\* ------------------------------------------------------- vector helpers
size(t) == Len(t)
back(t) == t[Len(t)]
At(t, i) == t[i + 1]

\* vector::emplace / insert of the nodes s before position k
VecInsert(t, k, s) == SubSeq(t, 1, k) \o s \o SubSeq(t, k + 1, Len(t))

\* vector::erase of the positions [a, b)
VecErase(t, a, b) == SubSeq(t, 1, a) \o SubSeq(t, b + 1, Len(t))

\* the nodes of t, the drift of the one at position i set to d
SetDrift(t, i, d) == [t EXCEPT ![i + 1].drift = d]

RECURSIVE SumDrift(_, _)
\* sum of the drifts of the first k nodes
SumDrift(t, k) == IF k = 0 THEN 0 ELSE SumDrift(t, k - 1) + t[k].drift

\* level of the node at position i: depth(0) = 0,
\* depth(next) = depth(current) + 1 - drift(current)
Depth(t, i) == i - SumDrift(t, i)

\* the three invariants of the drift_tree comment
DriftSumIsCount(t) == SumDrift(t, Len(t)) = Len(t)
LastIsLeaf(t) == Len(t) = 0 \/ is_leaf(back(t))
PrefixesValid(t) == \A k \in 1..Len(t) : SumDrift(t, k - 1) <= k - 1

ValidEncoding(t) == DriftSumIsCount(t) /\ LastIsLeaf(t) /\ PrefixesValid(t)

\* ------------------------------------------------- drift_tree operations
\* push_root without back().drift += 1
PushRoot_NoBackDrift(t, value) ==
    VecInsert(t, 0, <<drift_node(0, value)>>)

\* push_root that emplaces the value as a sibling in front (drift 1)
PushRoot_Sibling(t, value) ==
    VecInsert(t, 0, <<drift_node(1, value)>>)

\* the vector after push_root(value)
PushRoot(t, value) ==
    LET drift == 0
        u == VecInsert(t, 0, <<drift_node(drift, value)>>)
    IN  SetDrift(u, Len(u) - 1, back(u).drift + 1)

\* push_back_drifted without back().drift = back_drift
PushBackDrifted_KeepsDrift(t, data, back_drift) ==
    LET drift == 1 + back(t).drift - back_drift
    IN  Append(t, drift_node(drift, data))

\* the vector after push_back_drifted(data, back_drift), asserts passed
PushBackDrifted(t, data, back_drift) ==
    LET drift == 1 + back(t).drift - back_drift
    IN  Append(SetDrift(t, Len(t) - 1, back_drift), drift_node(drift, data))

\* push_back_drifted asserting 2 + back().drift > back_drift
PushBackDriftedPre_OffByOne(t, back_drift) ==
    0 < size(t) /\ 2 + back(t).drift > back_drift

PushBackDriftedPre(t, back_drift) ==
    0 < size(t) /\ 1 + back(t).drift > back_drift

\* push_back_level that emplaces the drift level instead of 1 + level
PushBackLevel_Level(t, data, level) ==
    Append(SetDrift(t, Len(t) - 1, back(t).drift - level),
           drift_node(level, data))

\* the vector after push_back_level(data, level), asserts passed
PushBackLevel(t, data, level) ==
    Append(SetDrift(t, Len(t) - 1, back(t).drift - level),
           drift_node(1 + level, data))

PushBackLevelPre(t, level) ==
    0 < size(t) /\ back(t).drift > level

\* pop_back without back().drift += drift
PopBack_NoRestore(t) == SubSeq(t, 1, Len(t) - 1)

\* the vector after pop_back(), assert passed
PopBack(t) ==
    LET drift == back(t).drift - 1
        u == SubSeq(t, 1, Len(t) - 1)
    IN  SetDrift(u, Len(u) - 1, back(u).drift + drift)

PopBackPre(t) == 1 < size(t)

\* insert_first_child that emplaces i->drift instead of 1 + i->drift
InsertFirstChild_NoOne(t, i, data) ==
    LET drift == At(t, i).drift
    IN  VecInsert(SetDrift(t, i, 0), i + 1, <<drift_node(drift, data)>>)

\* insert_first_child that emplaces at i instead of i + 1
InsertFirstChild_Before(t, i, data) ==
    LET drift == 1 + At(t, i).drift
    IN  VecInsert(SetDrift(t, i, 0), i, <<drift_node(drift, data)>>)

\* the vector after insert_first_child(i, data), assert passed
InsertFirstChild(t, i, data) ==
    LET drift == 1 + At(t, i).drift
    IN  VecInsert(SetDrift(t, i, 0), i + 1, <<drift_node(drift, data)>>)

RECURSIVE Rethread_NoOne(_, _, _, _)
\* the loop with drift -= (next++)->drift
Rethread_NoOne(u, next, inserted, drift) ==
    IF inserted - 1 = 0
    THEN [next |-> next, drift |-> drift]
    ELSE Rethread_NoOne(u, next + 1, inserted - 1, drift - At(u, next).drift)

RECURSIVE Rethread(_, _, _, _)
\* while(--inserted) drift += 1 - (next++)->drift, from position next
Rethread(u, next, inserted, drift) ==
    IF inserted - 1 = 0
    THEN [next |-> next, drift |-> drift]
    ELSE Rethread(u, next + 1, inserted - 1, drift + 1 - At(u, next).drift)

\* insert_child_tree without (next-1)->drift = 0
InsertChildTree_NoTargetReset(t, i, range) ==
    LET old_count == size(t)
        u == VecInsert(t, i + 1, range)
        next == i + 1
        inserted == size(u) - old_count
    IN  IF 0 < inserted
        THEN LET drift == 1 + At(u, next - 1).drift
                 r == Rethread(u, next, inserted, drift)
             IN  SetDrift(u, r.next, r.drift)
        ELSE u

\* the vector after insert_child_tree(i, first, last), assert passed
InsertChildTree(t, i, range) ==
    LET old_count == size(t)
        u == VecInsert(t, i + 1, range)
        next == i + 1
        inserted == size(u) - old_count
    IN  IF 0 < inserted
        THEN LET drift == 1 + At(u, next - 1).drift
                 v == SetDrift(u, next - 1, 0)
                 r == Rethread(v, next, inserted, drift)
             IN  SetDrift(v, r.next, r.drift)
        ELSE u

\* the position insert_child_tree(i, first, last) returns
InsertChildTreeReturn(t, i, range) ==
    IF 0 < Len(range) THEN i + Len(range) ELSE i + 1

\* insert_sibling that emplaces behind i
InsertSibling_After(t, i, data) ==
    VecInsert(t, i + 1, <<drift_node(1, data)>>)

\* the vector after insert_sibling(i, data), assert passed
InsertSibling(t, i, data) ==
    LET drift == 1
    IN  VecInsert(t, i, <<drift_node(drift, data)>>)

\* erase_leaf without (i-1)->drift += drift
EraseLeaf_NoFold(t, i) == VecErase(t, i, i + 1)

\* the vector after erase_leaf(i), asserts passed; at i = 0 the slot
\* (i-1) is outside the vector and the node sequence only loses node i
EraseLeaf(t, i) ==
    LET drift == At(t, i).drift - 1
        u == IF i >= 1 THEN SetDrift(t, i - 1, At(t, i - 1).drift + drift)
                       ELSE t
    IN  VecErase(u, i, i + 1)

\* erase_leaf without assert(i->is_leaf())
EraseLeafPre_NoLeafCheck(t, i) == i # size(t)

EraseLeafPre(t, i) == i # size(t) /\ is_leaf(At(t, i))

\* ------------------------------------------------------ subtree::iterator
\* iterator(it) with level_m(1) whatever the drift
iterator_begin_AlwaysOpen(t, p) == [it |-> p + 1, level |-> 1]

\* iterator(it): it_m(it + 1), level_m(it->drift == 0 ? 1 : 0)
iterator_begin(t, p) ==
    [it |-> p + 1, level |-> IF At(t, p).drift = 0 THEN 1 ELSE 0]

is_end(s) == s.level = 0

\* operator++ without level_m += 1
iterator_next_NoOpen(s, d) ==
    [it |-> s.it + 1,
     level |-> IF s.level < d THEN 0 ELSE s.level - d]

\* operator++ that moves the cursor only when the subtree stays open
iterator_next_Stay(s, d) ==
    LET level == s.level + 1
    IN  IF level < d
        THEN [it |-> s.it, level |-> 0]
        ELSE [it |-> s.it + 1, level |-> level - d]

\* operator++ on a cursor whose node has drift d
iterator_next(s, d) ==
    LET level == s.level + 1
    IN  [it |-> s.it + 1,
         level |-> IF level < d THEN 0 ELSE level - d]

\* what it_m->drift reads: past the vector an indeterminate value
DriftRead(t, it) ==
    IF it < Len(t) THEN {At(t, it).drift} ELSE Args

RECURSIVE SubtreeWalk(_, _, _)
\* the loop of erase_subtree: while(st_it != end(st)) { level = st_it.level(); ++st_it; }
\* oob: the loop dereferenced a position past the vector
SubtreeWalk(t, s, level) ==
    IF is_end(s) THEN [it |-> s.it, level |-> level, oob |-> FALSE]
    ELSE IF s.it >= Len(t) THEN [it |-> s.it, level |-> level, oob |-> TRUE]
    ELSE SubtreeWalk(t, iterator_next(s, At(t, s.it).drift), s.level)

\* erase_subtree that hands the anchor the last removed drift unchanged
EraseSubtree_LastDrift(t, p) ==
    LET st_it == iterator_begin(t, p)
        w == SubtreeWalk(t, st_it, st_it.level)
    IN  VecErase(SetDrift(t, p, At(t, w.it - 1).drift), st_it.it, w.it)

\* erase_subtree that erases from the anchor instead of from its first child
EraseSubtree_WithAnchor(t, p) ==
    LET st_it == iterator_begin(t, p)
        w == SubtreeWalk(t, st_it, st_it.level)
        drift == At(t, w.it - 1).drift - w.level
    IN  VecErase(SetDrift(t, p, drift), p, w.it)

\* the vector after erase_subtree(subtree(p)), the walk having stayed inside
EraseSubtree(t, p) ==
    LET st_it == iterator_begin(t, p)
        vec_begin == st_it.it
        w == SubtreeWalk(t, st_it, st_it.level)
        vec_end == w.it
        drift == At(t, vec_end - 1).drift - w.level
    IN  VecErase(SetDrift(t, p, drift), vec_begin, vec_end)

\* ------------------------------------------------------------------ inputs
Positions(t) == 0..Len(t)
NodePositions(t) == 0..(Len(t) - 1)

\* the node ranges handed to insert_child_tree: the valid encodings of up
\* to MaxSize - 2 nodes, every node holding RangeData
RangeData == CHOOSE v \in DataValues : TRUE
Ranges ==
    {r \in UNION {[1..n -> [drift : 0..n, data : {RangeData}]] : n \in 0..(MaxSize - 2)} :
        ValidEncoding(r)}

\* ------------------------------------------------------------------- state
NoView == [active |-> FALSE, anchor |-> 0, it |-> 0, level |-> 0,
           visited |-> <<>>, oob |-> FALSE]

Call(name, pos, data, arg, range, oob) ==
    [name |-> name, pos |-> pos, data |-> data, arg |-> arg,
     range |-> range, oob |-> oob]

Init ==
    /\ tree = <<>>
    /\ status = "ok"
    /\ old = <<>>
    /\ op = Call("init", 0, 0, 0, <<>>, FALSE)
    /\ view = NoView

\* a call ends: the vector it leaves and how it ended; any view is invalidated
Ends(call, t, how) ==
    /\ tree' = t
    /\ status' = how
    /\ old' = tree
    /\ op' = call
    /\ view' = NoView

\* ----------------------------------------------------------------- actions
push_root(value) ==
    /\ status = "ok"
    /\ Len(tree) < MaxSize
    /\ Ends(Call("push_root", 0, value, 0, <<>>, FALSE), PushRoot(tree, value), "ok")

push_back_drifted(data, back_drift) ==
    /\ status = "ok"
    /\ IF PushBackDriftedPre(tree, back_drift)
       THEN /\ Len(tree) < MaxSize
            /\ Ends(Call("push_back_drifted", 0, data, back_drift, <<>>, FALSE),
                    PushBackDrifted(tree, data, back_drift), "ok")
       ELSE Ends(Call("push_back_drifted", 0, data, back_drift, <<>>, FALSE),
                 tree, "assert")

push_back_child(data) ==
    /\ status = "ok"
    /\ IF PushBackDriftedPre(tree, DRIFT_CHILD)
       THEN /\ Len(tree) < MaxSize
            /\ Ends(Call("push_back_child", 0, data, DRIFT_CHILD, <<>>, FALSE),
                    PushBackDrifted(tree, data, DRIFT_CHILD), "ok")
       ELSE Ends(Call("push_back_child", 0, data, DRIFT_CHILD, <<>>, FALSE),
                 tree, "assert")

push_back_sibling(data) ==
    /\ status = "ok"
    /\ IF PushBackDriftedPre(tree, DRIFT_SIBLING)
       THEN /\ Len(tree) < MaxSize
            /\ Ends(Call("push_back_sibling", 0, data, DRIFT_SIBLING, <<>>, FALSE),
                    PushBackDrifted(tree, data, DRIFT_SIBLING), "ok")
       ELSE Ends(Call("push_back_sibling", 0, data, DRIFT_SIBLING, <<>>, FALSE),
                 tree, "assert")

push_back_level(data, level) ==
    /\ status = "ok"
    /\ IF PushBackLevelPre(tree, level)
       THEN /\ Len(tree) < MaxSize
            /\ Ends(Call("push_back_level", 0, data, level, <<>>, FALSE),
                    PushBackLevel(tree, data, level), "ok")
       ELSE Ends(Call("push_back_level", 0, data, level, <<>>, FALSE),
                 tree, "assert")

pop_back ==
    /\ status = "ok"
    /\ IF PopBackPre(tree)
       THEN Ends(Call("pop_back", 0, 0, 0, <<>>, FALSE), PopBack(tree), "ok")
       ELSE Ends(Call("pop_back", 0, 0, 0, <<>>, FALSE), tree, "assert")

insert_first_child(i, data) ==
    /\ status = "ok"
    /\ IF size(tree) # i
       THEN /\ Len(tree) < MaxSize
            /\ Ends(Call("insert_first_child", i, data, 0, <<>>, FALSE),
                    InsertFirstChild(tree, i, data), "ok")
       ELSE Ends(Call("insert_first_child", i, data, 0, <<>>, FALSE),
                 tree, "assert")

insert_child_tree(i, range) ==
    /\ status = "ok"
    /\ IF size(tree) # i
       THEN /\ Len(tree) + Len(range) <= MaxSize
            /\ Ends(Call("insert_child_tree", i, 0,
                         InsertChildTreeReturn(tree, i, range), range, FALSE),
                    InsertChildTree(tree, i, range), "ok")
       ELSE Ends(Call("insert_child_tree", i, 0, 0, range, FALSE),
                 tree, "assert")

insert_sibling(i, data) ==
    /\ status = "ok"
    /\ IF i # size(tree)
       THEN /\ Len(tree) < MaxSize
            /\ Ends(Call("insert_sibling", i, data, 0, <<>>, FALSE),
                    InsertSibling(tree, i, data), "ok")
       ELSE Ends(Call("insert_sibling", i, data, 0, <<>>, FALSE),
                 tree, "assert")

\* at i = 0 the write (i-1)->drift += drift leaves the vector: the call
\* either completes on the node sequence or the program dies ("ub")
erase_leaf(i) ==
    /\ status = "ok"
    /\ IF EraseLeafPre(tree, i)
       THEN IF i >= 1
            THEN Ends(Call("erase_leaf", i, 0, 0, <<>>, FALSE),
                      EraseLeaf(tree, i), "ok")
            ELSE \/ Ends(Call("erase_leaf", i, 0, 0, <<>>, TRUE),
                         EraseLeaf(tree, i), "ok")
                 \/ Ends(Call("erase_leaf", i, 0, 0, <<>>, TRUE), tree, "ub")
       ELSE Ends(Call("erase_leaf", i, 0, 0, <<>>, FALSE), tree, "assert")

\* erase_subtree(subtree(begin() + p))
erase_subtree(p) ==
    /\ status = "ok"
    /\ LET st_it == iterator_begin(tree, p)
           w == SubtreeWalk(tree, st_it, st_it.level)
       IN  IF w.oob
           THEN Ends(Call("erase_subtree", p, 0, 0, <<>>, TRUE), tree, "ub")
           ELSE Ends(Call("erase_subtree", p, 0, 0, <<>>, FALSE),
                     EraseSubtree(tree, p), "ok")

\* begin(subtree(begin() + p))
view_begin(p) ==
    /\ status = "ok"
    /\ LET s == iterator_begin(tree, p)
       IN  view' = [active |-> TRUE, anchor |-> p, it |-> s.it,
                    level |-> s.level, visited |-> <<>>, oob |-> FALSE]
    /\ old' = tree
    /\ op' = Call("subtree", p, 0, 0, <<>>, FALSE)
    /\ UNCHANGED <<tree, status>>

\* one round of a loop over the view: *it, then ++it
view_advance ==
    /\ status = "ok"
    /\ view.active
    /\ ~is_end(view)
    /\ \E d \in DriftRead(tree, view.it) :
          LET s == iterator_next(view, d)
          IN  view' = [view EXCEPT !.it = s.it, !.level = s.level,
                                   !.visited = Append(@, view.it),
                                   !.oob = @ \/ view.it >= Len(tree)]
    /\ UNCHANGED <<tree, status, old, op>>

Next ==
    \/ \E value \in DataValues : push_root(value)
    \/ \E data \in DataValues, back_drift \in Args :
          push_back_drifted(data, back_drift)
    \/ \E data \in DataValues : push_back_child(data)
    \/ \E data \in DataValues : push_back_sibling(data)
    \/ \E data \in DataValues, level \in Args : push_back_level(data, level)
    \/ pop_back
    \/ \E i \in Positions(tree), data \in DataValues : insert_first_child(i, data)
    \/ \E i \in Positions(tree), range \in Ranges : insert_child_tree(i, range)
    \/ \E i \in Positions(tree), data \in DataValues : insert_sibling(i, data)
    \/ \E i \in Positions(tree) : erase_leaf(i)
    \/ \E p \in NodePositions(tree) : erase_subtree(p)
    \/ \E p \in NodePositions(tree) : view_begin(p)
    \/ view_advance

Spec == Init /\ [][Next]_vars

\* every stored drift is a natural number: no size_t operation wrapped
TypeOK ==
    /\ \A k \in 1..Len(tree) : tree[k].drift \in Nat /\ tree[k].data \in DataValues
    /\ status \in {"ok", "assert", "ub"}

\* the specification of building by appends only: push_root on the empty
\* tree, then push_back_child / push_back_sibling / push_back_level, read
\* back through views
push_first_root(value) == tree = <<>> /\ push_root(value)

NextBuild ==
    \/ \E value \in DataValues : push_first_root(value)
    \/ \E data \in DataValues : push_back_child(data)
    \/ \E data \in DataValues : push_back_sibling(data)
    \/ \E data \in DataValues, level \in Args : push_back_level(data, level)
    \/ \E p \in NodePositions(tree) : view_begin(p)
    \/ view_advance

SpecBuild == Init /\ [][NextBuild]_vars

\* the calls of BuilderTest::pushBackConstruction / BuilderTest::subtree:
\*   1
\*    2    5
\*     3 4  6
Scenario ==
    << [name |-> "push_root", data |-> 1, arg |-> 0],
       [name |-> "push_back_child", data |-> 2, arg |-> DRIFT_CHILD],
       [name |-> "push_back_child", data |-> 3, arg |-> DRIFT_CHILD],
       [name |-> "push_back_sibling", data |-> 4, arg |-> DRIFT_SIBLING],
       [name |-> "push_back_level", data |-> 5, arg |-> 1],
       [name |-> "push_back_child", data |-> 6, arg |-> DRIFT_CHILD] >>

\* the asserts of the call c on the vector t
ScenarioPre(t, c) ==
    CASE c.name = "push_root" -> TRUE
      [] c.name \in {"push_back_child", "push_back_sibling"} ->
            PushBackDriftedPre(t, c.arg)
      [] c.name = "push_back_level" -> PushBackLevelPre(t, c.arg)

\* the vector after the call c on the vector t
ScenarioApply(t, c) ==
    CASE c.name = "push_root" -> PushRoot(t, c.data)
      [] c.name \in {"push_back_child", "push_back_sibling"} ->
            PushBackDrifted(t, c.data, c.arg)
      [] c.name = "push_back_level" -> PushBackLevel(t, c.data, c.arg)

RECURSIVE ScenarioTree(_)
\* the vector after the first k calls of the scenario
ScenarioTree(k) ==
    IF k = 0 THEN <<>> ELSE ScenarioApply(ScenarioTree(k - 1), Scenario[k])

\* the k-th call of the scenario, made on the vector the first k-1 left
scenario_call(k) ==
    /\ status = "ok"
    /\ tree = ScenarioTree(k - 1)
    /\ LET c == Scenario[k]
           call == Call(c.name, 0, c.data, c.arg, <<>>, FALSE)
       IN  IF ScenarioPre(tree, c)
           THEN Ends(call, ScenarioApply(tree, c), "ok")
           ELSE Ends(call, tree, "assert")

\* the scenario, then what the tests do with its tree: views and erasures
NextScenario ==
    \/ \E k \in 1..Len(Scenario) : scenario_call(k)
    \/ pop_back
    \/ \E i \in Positions(tree) : erase_leaf(i)
    \/ \E p \in NodePositions(tree) : erase_subtree(p)
    \/ \E p \in NodePositions(tree) : view_begin(p)
    \/ view_advance

SpecScenario == Init /\ [][NextScenario]_vars

\* ------------------------------------------------------ tree vocabulary
\* the positions after p up to the first one that is not deeper than p
Descendants(t, p) ==
    {j \in (p + 1)..(Len(t) - 1) :
        \A k \in (p + 1)..j : Depth(t, k) > Depth(t, p)}

\* the positions whose nearest shallower predecessor is one level up
ParentOf(t, i) ==
    {q \in 0..(i - 1) :
        /\ Depth(t, q) = Depth(t, i) - 1
        /\ \A k \in (q + 1)..(i - 1) : Depth(t, k) >= Depth(t, i)}

Children(t, q) == {j \in Descendants(t, q) : Depth(t, j) = Depth(t, q) + 1}

\* the positions first..last in order
Run(first, last) == [k \in 1..(last - first + 1) |-> first + k - 1]

Succeeded(name) == op.name = name /\ status = "ok"

\* ----------------------------------------------------------------- claims
\* C1: in every reachable state the sum of all node drifts equals the node
\* count and, if the tree is non-empty, the last node is a leaf.
C1_DriftSumAndLastLeaf ==
    /\ SumDrift(tree, Len(tree)) = Len(tree)
    /\ (Len(tree) > 0 => tree[Len(tree)].drift > 0)

C1_Witness ==
    /\ Succeeded("erase_subtree")
    /\ Len(tree) >= 3
    /\ Len(old) > Len(tree)
    /\ \E k \in 1..Len(tree) : tree[k].drift >= 2

\* C2: a view anchored at p visits, in order and each once, exactly the
\* positions p+1..q of the descendants of p, and nothing else; a view
\* anchored at a leaf visits nothing.
C2_ViewEnumeratesDescendants ==
    view.active =>
        LET p == view.anchor
            desc == Descendants(tree, p)
        IN  /\ ~view.oob
            /\ Len(view.visited) <= Cardinality(desc)
            /\ view.visited = Run(p + 1, p + Len(view.visited))
            /\ \A k \in 1..Len(view.visited) : view.visited[k] \in desc
            /\ (is_end(view) => Len(view.visited) = Cardinality(desc))
            /\ (is_end(view) /\ is_leaf(At(tree, p)) => view.visited = <<>>)

C2_Witness ==
    /\ view.active
    /\ is_end(view)
    /\ view.anchor >= 1
    /\ Len(view.visited) >= 1
    /\ view.anchor + Len(view.visited) < Len(tree) - 1

\* C3 (as claimed): in a tree built by push_root on the empty tree followed
\* by push_back_child / push_back_sibling / push_back_level calls, a finished
\* view anchored at the root has visited every other node, in order.
C3_RootViewEnumeratesAll ==
    (view.active /\ view.anchor = 0 /\ is_end(view)) =>
        view.visited = Run(1, Len(tree) - 1)

\* C4: erase_subtree at p removes exactly the descendants of p and not p: the
\* count drops by their number, p is a leaf whose drift is the last removed
\* node's drift minus that node's depth relative to p, the nodes before p
\* and after the removed range keep data, drift and depth, and with p a
\* leaf already the sequence is unchanged.
C4_EraseSubtreeRemovesDescendants ==
    op.name = "erase_subtree" =>
        LET p == op.pos
            m == Cardinality(Descendants(old, p))
        IN  /\ status = "ok"
            /\ Len(tree) = Len(old) - m
            /\ At(tree, p).data = At(old, p).data
            /\ is_leaf(At(tree, p))
            /\ (m > 0 => At(tree, p).drift =
                    At(old, p + m).drift - (Depth(old, p + m) - Depth(old, p)))
            /\ \A j \in 0..(p - 1) :
                    At(tree, j) = At(old, j) /\ Depth(tree, j) = Depth(old, j)
            /\ Depth(tree, p) = Depth(old, p)
            /\ \A j \in (p + m + 1)..(Len(old) - 1) :
                    At(tree, j - m) = At(old, j) /\ Depth(tree, j - m) = Depth(old, j)
            /\ (is_leaf(At(old, p)) => tree = old)

C4_Witness ==
    /\ Succeeded("erase_subtree")
    /\ op.pos >= 1
    /\ Len(old) - Len(tree) >= 1
    /\ Len(tree) > op.pos + 1

\* C5: push_back_drifted(data, back_drift) that passes its asserts appends
\* one node holding data with drift 1 + old last drift - back_drift, sets the
\* previous last node's drift to back_drift and changes nothing else; the new
\* node's depth is depth(previous last) + 1 - back_drift: push_back_child
\* makes it a child of the previous last node, push_back_sibling puts it at
\* that node's depth.
C5_PushBackDrifted ==
    (/\ op.name \in {"push_back_drifted", "push_back_child", "push_back_sibling"}
     /\ Len(old) >= 1
     /\ op.arg < 1 + old[Len(old)].drift) =>
        LET n == Len(old)
            back_drift == op.arg
        IN  /\ status = "ok"
            /\ Len(tree) = n + 1
            /\ tree[n + 1] = [drift |-> 1 + old[n].drift - back_drift, data |-> op.data]
            /\ tree[n] = [drift |-> back_drift, data |-> old[n].data]
            /\ \A k \in 1..(n - 1) : tree[k] = old[k]
            /\ Depth(tree, n) = Depth(old, n - 1) + 1 - back_drift
            /\ (op.name = "push_back_child" =>
                    /\ back_drift = 0
                    /\ ParentOf(tree, n) = {n - 1})
            /\ (op.name = "push_back_sibling" =>
                    /\ back_drift = 1
                    /\ Depth(tree, n) = Depth(tree, n - 1)
                    /\ ParentOf(tree, n) = ParentOf(old, n - 1))

C5_Witness ==
    /\ Succeeded("push_back_drifted")
    /\ op.arg >= 2
    /\ tree[Len(tree)].drift >= 2
    /\ Len(tree) >= 4

\* C6: push_back_level(data, level) that passes its asserts lowers the
\* previous last node's drift by level, appends a node with drift 1 + level
\* holding data and changes nothing else; the new node sits at depth level,
\* and the result is that of push_back_drifted(data, old last drift - level).
C6_PushBackLevel ==
    (/\ op.name = "push_back_level"
     /\ Len(old) >= 1
     /\ old[Len(old)].drift > op.arg) =>
        LET n == Len(old)
            level == op.arg
        IN  /\ status = "ok"
            /\ Len(tree) = n + 1
            /\ tree[n + 1] = [drift |-> 1 + level, data |-> op.data]
            /\ tree[n] = [drift |-> old[n].drift - level, data |-> old[n].data]
            /\ \A k \in 1..(n - 1) : tree[k] = old[k]
            /\ Depth(tree, n) = level
            /\ PushBackDriftedPre(old, old[n].drift - level)
            /\ tree = PushBackDrifted(old, op.data, old[n].drift - level)

C6_Witness ==
    /\ Succeeded("push_back_level")
    /\ op.arg >= 1
    /\ old[Len(old)].drift > op.arg + 1
    /\ Len(tree) >= 4

\* C7: pop_back on at least 2 nodes removes the last node and adds its
\* drift - 1 to the new last node's drift; and on every non-empty tree any
\* push_back_drifted / push_back_level whose asserts pass, followed by
\* pop_back, gives back the sequence.
C7_PopBackUndoesPush ==
    /\ (op.name = "pop_back" /\ Len(old) >= 2) =>
            LET n == Len(old)
            IN  /\ status = "ok"
                /\ Len(tree) = n - 1
                /\ tree[n - 1] = [drift |-> old[n - 1].drift + old[n].drift - 1,
                                  data |-> old[n - 1].data]
                /\ \A k \in 1..(n - 2) : tree[k] = old[k]
    /\ (status = "ok" /\ Len(tree) >= 1) =>
            \A data \in DataValues, a \in Args :
                /\ (a < 1 + tree[Len(tree)].drift =>
                        /\ PopBackPre(PushBackDrifted(tree, data, a))
                        /\ PopBack(PushBackDrifted(tree, data, a)) = tree)
                /\ (tree[Len(tree)].drift > a =>
                        /\ PopBackPre(PushBackLevel(tree, data, a))
                        /\ PopBack(PushBackLevel(tree, data, a)) = tree)

C7_Witness ==
    /\ Succeeded("pop_back")
    /\ Len(tree) >= 2
    /\ old[Len(old)].drift >= 2
    /\ \E data \in DataValues, a \in Args :
          /\ a >= 1
          /\ PushBackDriftedPre(tree, a)
          /\ old = PushBackDrifted(tree, data, a)

\* C8: erase_leaf at a leaf position i >= 1 removes that node only, adds its
\* drift - 1 to the drift of the node at i-1 and keeps data, order and depth
\* of all other nodes; a node at i-1 whose only child was the leaf becomes a
\* leaf, a parent that keeps other children stays a non-leaf.
C8_EraseLeaf ==
    (/\ op.name = "erase_leaf"
     /\ op.pos >= 1
     /\ op.pos < Len(old)
     /\ At(old, op.pos).drift > 0) =>
        LET i == op.pos
        IN  /\ status = "ok"
            /\ Len(tree) = Len(old) - 1
            /\ At(tree, i - 1) = [drift |-> At(old, i - 1).drift + At(old, i).drift - 1,
                                  data |-> At(old, i - 1).data]
            /\ \A k \in 0..(i - 2) : At(tree, k) = At(old, k)
            /\ \A k \in 0..(i - 1) : Depth(tree, k) = Depth(old, k)
            /\ \A k \in (i + 1)..(Len(old) - 1) :
                    At(tree, k - 1) = At(old, k) /\ Depth(tree, k - 1) = Depth(old, k)
            /\ \A q \in ParentOf(old, i) :
                    IF Children(old, q) = {i}
                    THEN q = i - 1 /\ is_leaf(At(tree, q))
                    ELSE has_children(At(tree, q))

C8_Witness ==
    /\ Succeeded("erase_leaf")
    /\ op.pos >= 1
    /\ op.pos < Len(old) - 1
    /\ At(old, op.pos).drift >= 2
    /\ \E q \in ParentOf(old, op.pos) : Children(old, q) # {op.pos}

\* C9: a call that violates its precondition ends in a contract violation
\* with the node sequence as it was: push_back_drifted with back_drift >=
\* 1 + last.drift or on an empty tree, push_back_level with level >=
\* last.drift or on an empty tree, erase_leaf on a node with children,
\* pop_back on a single node, and insert_first_child / insert_child_tree /
\* insert_sibling / erase_leaf at the end position.
C9_Violates ==
    LET n == Len(old)
    IN  \/ /\ op.name \in {"push_back_drifted", "push_back_child", "push_back_sibling"}
           /\ (n = 0 \/ op.arg >= 1 + old[n].drift)
        \/ /\ op.name = "push_back_level"
           /\ (n = 0 \/ op.arg >= old[n].drift)
        \/ /\ op.name = "erase_leaf"
           /\ (op.pos = n \/ old[op.pos + 1].drift = 0)
        \/ /\ op.name = "pop_back"
           /\ n = 1
        \/ /\ op.name \in {"insert_first_child", "insert_child_tree", "insert_sibling"}
           /\ op.pos = n

C9_PreconditionViolationsFailFast ==
    C9_Violates => (status = "assert" /\ tree = old)

C9_Witness ==
    /\ C9_Violates
    /\ status = "assert"
    /\ op.name = "erase_leaf"
    /\ op.pos < Len(old)
    /\ Len(old) >= 3

\* C10: push_root(data) on n >= 1 nodes gives n + 1 nodes, the new one
\* first with drift 0; every old node keeps its data and order, moves one
\* position on and one level down, the old sequence being the new root's
\* subtree; on the empty tree it gives a single leaf.
C10_PushRoot ==
    op.name = "push_root" =>
        LET n == Len(old)
        IN  /\ status = "ok"
            /\ Len(tree) = n + 1
            /\ tree[1].data = op.data
            /\ (n = 0 => is_leaf(tree[1]))
            /\ (n >= 1 =>
                    /\ tree[1].drift = 0
                    /\ \A k \in 0..(n - 1) :
                            /\ At(tree, k + 1).data = At(old, k).data
                            /\ Depth(tree, k + 1) = Depth(old, k) + 1
                    /\ Descendants(tree, 0) = 1..n)

C10_Witness ==
    /\ Succeeded("push_root")
    /\ Len(old) >= 3
    /\ \E k \in 1..Len(old) : old[k].drift = 0
    /\ \E j, k \in 1..Len(old) : old[j].data # old[k].data

\* C11: insert_first_child(p, data) on an existing position p inserts one
\* node directly after p as p's first child: p's drift becomes 0, the new
\* node's drift 1 + p's prior drift, p's former children follow the new
\* node as its siblings, and every old node keeps data, order and depth.
C11_InsertFirstChild ==
    (op.name = "insert_first_child" /\ op.pos < Len(old)) =>
        LET p == op.pos
            n == Len(old)
        IN  /\ status = "ok"
            /\ Len(tree) = n + 1
            /\ At(tree, p) = [drift |-> 0, data |-> At(old, p).data]
            /\ At(tree, p + 1) = [drift |-> 1 + At(old, p).drift, data |-> op.data]
            /\ Depth(tree, p + 1) = Depth(old, p) + 1
            /\ ParentOf(tree, p + 1) = {p}
            /\ \A j \in 0..(p - 1) : At(tree, j) = At(old, j)
            /\ \A j \in 0..p : Depth(tree, j) = Depth(old, j)
            /\ \A j \in (p + 1)..(n - 1) :
                    At(tree, j + 1) = At(old, j) /\ Depth(tree, j + 1) = Depth(old, j)
            /\ Children(tree, p) = {p + 1} \cup {j + 1 : j \in Children(old, p)}

C11_Witness ==
    /\ Succeeded("insert_first_child")
    /\ op.pos >= 1
    /\ Cardinality(Children(old, op.pos)) >= 1

\* C12: insert_sibling(p, data) on an existing position p inserts one leaf
\* with drift 1 directly before p, at the depth and under the parent of the
\* node at p, and every old node keeps data, drift, order and depth.
C12_InsertSibling ==
    (op.name = "insert_sibling" /\ op.pos < Len(old)) =>
        LET p == op.pos
            n == Len(old)
        IN  /\ status = "ok"
            /\ Len(tree) = n + 1
            /\ At(tree, p) = [drift |-> 1, data |-> op.data]
            /\ is_leaf(At(tree, p))
            /\ Depth(tree, p) = Depth(old, p)
            /\ ParentOf(tree, p) = ParentOf(old, p)
            /\ ParentOf(tree, p + 1) = ParentOf(old, p)
            /\ \A j \in 0..(p - 1) :
                    At(tree, j) = At(old, j) /\ Depth(tree, j) = Depth(old, j)
            /\ \A j \in p..(n - 1) :
                    At(tree, j + 1) = At(old, j) /\ Depth(tree, j + 1) = Depth(old, j)

C12_Witness ==
    /\ Succeeded("insert_sibling")
    /\ op.pos >= 2
    /\ ParentOf(old, op.pos) # {op.pos - 1}
    /\ ParentOf(old, op.pos) # {}

\* C13: insert_child_tree(p, range) with a valid encoding of m >= 1 nodes
\* inserts them directly after p, the range's first node as p's first
\* child, each at depth(p) + 1 + its depth in the range; the old nodes keep
\* data, order and depth, the count grows by m and the drift-sum and
\* last-leaf invariants hold; with an empty range the tree is unchanged and
\* the position after p is returned.
C13_InsertChildTree ==
    (op.name = "insert_child_tree" /\ op.pos < Len(old)) =>
        LET p == op.pos
            n == Len(old)
            m == Len(op.range)
        IN  /\ status = "ok"
            /\ Len(tree) = n + m
            /\ \A j \in 0..(p - 1) : At(tree, j) = At(old, j)
            /\ At(tree, p).data = At(old, p).data
            /\ \A j \in 0..p : Depth(tree, j) = Depth(old, j)
            /\ \A j \in (p + 1)..(n - 1) :
                    At(tree, j + m).data = At(old, j).data
                    /\ Depth(tree, j + m) = Depth(old, j)
            /\ SumDrift(tree, Len(tree)) = Len(tree)
            /\ tree[Len(tree)].drift > 0
            /\ (m >= 1 =>
                    /\ At(tree, p).drift = 0
                    /\ ParentOf(tree, p + 1) = {p}
                    /\ \A k \in 0..(m - 1) :
                            /\ At(tree, p + 1 + k).data = At(op.range, k).data
                            /\ Depth(tree, p + 1 + k) =
                                   Depth(old, p) + 1 + Depth(op.range, k))
            /\ (m = 0 => tree = old /\ op.arg = p + 1)

C13_Witness ==
    /\ Succeeded("insert_child_tree")
    /\ Len(op.range) >= 2
    /\ op.range[1].drift = 0
    /\ Cardinality(Children(old, op.pos)) >= 1

\* C14: in every reachable tree, for each k in 1..size the drifts of the
\* first k-1 nodes sum to at most k-1, so that the first k nodes with the
\* k-th drift replaced by k minus that sum have a positive last drift and
\* satisfy the drift-sum and last-leaf invariants.
C14_PrefixesAreTrees ==
    \A k \in 1..Len(tree) :
        LET closing == k - SumDrift(tree, k - 1)
            prefix == [SubSeq(tree, 1, k) EXCEPT ![k].drift = closing]
        IN  /\ SumDrift(tree, k - 1) <= k - 1
            /\ closing > 0
            /\ SumDrift(prefix, k) = k
            /\ prefix[k].drift > 0

C14_Witness ==
    /\ status = "ok"
    /\ Len(tree) >= 4
    /\ \E k \in 1..(Len(tree) - 1) :
          /\ tree[k].drift # k - SumDrift(tree, k - 1)
          /\ Depth(tree, k) >= 2

\* the data of the nodes, in order
DataOf(t) == [k \in 1..Len(t) |-> t[k].data]

C15_Case ==
    /\ op.name = "erase_subtree"
    /\ old = ScenarioTree(Len(Scenario))
    /\ At(old, op.pos).data = 5

\* C15 (as claimed): in the scenario's tree erase_subtree of the view
\* anchored at node 5 removes only node 6, leaves node 5 a leaf, and leaves
\* a node count of 4.
C15_EraseAtFiveLeavesFour ==
    C15_Case =>
        /\ status = "ok"
        /\ DataOf(tree) = <<1, 2, 3, 4, 5>>
        /\ is_leaf(At(tree, op.pos))
        /\ Len(tree) = 4

\* C15 (amended): ... removes only node 6, leaves node 5 a leaf, and leaves
\* a node count of 5.
C15_EraseAtFiveLeavesFive ==
    C15_Case =>
        /\ status = "ok"
        /\ DataOf(tree) = <<1, 2, 3, 4, 5>>
        /\ is_leaf(At(tree, op.pos))
        /\ Len(tree) = 5
        /\ DataOf(old) = <<1, 2, 3, 4, 5, 6>>
        /\ {k \in 1..6 : old[k].drift = 0} = {1, 2, 5}

C15_Witness ==
    /\ C15_Case
    /\ status = "ok"
    /\ Len(old) = 6
    /\ Len(tree) = 5

\* C16: for a tree of n nodes and an anchor p the view is terminal after at
\* most n - p - 1 advances, and nothing read before the terminal state is at
\* an index >= n; the loop of erase_subtree stays inside as well.
C16_ViewFiniteAndInside ==
    /\ view.active =>
            /\ Len(view.visited) <= Len(tree) - view.anchor - 1
            /\ view.it = view.anchor + 1 + Len(view.visited)
            /\ (~is_end(view) => view.it < Len(tree))
            /\ \A k \in 1..Len(view.visited) : view.visited[k] < Len(tree)
            /\ ~view.oob
    /\ op.name = "erase_subtree" => (~op.oob /\ status = "ok")

C16_Witness ==
    /\ view.active
    /\ is_end(view)
    /\ view.anchor >= 1
    /\ Len(view.visited) = Len(tree) - view.anchor - 1
    /\ Len(view.visited) >= 2

\* the cursor of a fresh view
C17_Start ==
    (view.active /\ view.visited = <<>>) =>
        /\ view.it = view.anchor + 1
        /\ view.level = IF At(tree, view.anchor).drift = 0 THEN 1 ELSE 0

\* a step that advances the view
C17_Advances ==
    /\ view.active
    /\ view'.active
    /\ view'.visited = Append(view.visited, view.it)

\* C17 (as claimed): the cursor starts at (p+1, 1 if drift(p) = 0 else 0);
\* an advance raises levels_open by 1 and the view becomes terminal iff
\* that is strictly smaller than the current node's drift; otherwise the
\* drift is subtracted, the cursor moves on by one node and the view stays
\* non-terminal.
C17_AdvanceAsClaimed ==
    /\ []C17_Start
    /\ [][C17_Advances =>
            LET raised == view.level + 1
                drift == At(tree, view.it).drift
            IN  /\ is_end(view') <=> raised < drift
                /\ ~(raised < drift) =>
                        /\ view'.level = raised - drift
                        /\ view'.it = view.it + 1
                        /\ ~is_end(view')]_vars

\* C17 (amended): ... the view becomes terminal iff the raised levels_open
\* is smaller than or equal to the current node's drift; otherwise the
\* drift is subtracted and the view stays non-terminal; in both cases the
\* cursor moves on by one node.
C17_AdvanceClosesAtEqual ==
    /\ []C17_Start
    /\ [][C17_Advances =>
            LET raised == view.level + 1
                drift == At(tree, view.it).drift
            IN  /\ is_end(view') <=> raised <= drift
                /\ raised > drift => view'.level = raised - drift
                /\ view'.it = view.it + 1]_vars

C17_Witness ==
    /\ view.active
    /\ is_end(view)
    /\ Len(view.visited) >= 2
    /\ LET last == view.visited[Len(view.visited)]
       IN  /\ At(tree, last).drift = Depth(tree, last) - Depth(tree, view.anchor) + 1
           /\ last < Len(tree) - 1

\* C18 (as claimed): after any sequence of mutation operations whose
\* preconditions hold, starting from empty, the first node is the only node
\* of depth 0 and every other node has depth >= 1.
C18_FirstNodeIsOnlyRoot ==
    status = "ok" => \A k \in 1..(Len(tree) - 1) : Depth(tree, k) >= 1

\* C19 (as claimed): every mutating call that passes the operation's own
\* asserts reads and writes only slots with index in [0, size) and completes
\* with the invariants intact, erase_leaf on the leaf at position 0 included.
C19_Mutating ==
    op.name \in {"push_root", "push_back_drifted", "push_back_child",
                 "push_back_sibling", "push_back_level", "pop_back",
                 "insert_first_child", "insert_child_tree", "insert_sibling",
                 "erase_leaf", "erase_subtree"}

\* the asserts of the last call held on the vector it was given
C19_ChecksPass ==
    CASE op.name \in {"push_back_drifted", "push_back_child", "push_back_sibling"} ->
            PushBackDriftedPre(old, op.arg)
      [] op.name = "push_back_level" -> PushBackLevelPre(old, op.arg)
      [] op.name = "pop_back" -> PopBackPre(old)
      [] op.name \in {"insert_first_child", "insert_child_tree", "insert_sibling"} ->
            op.pos # size(old)
      [] op.name = "erase_leaf" -> EraseLeafPre(old, op.pos)
      [] OTHER -> TRUE

C19_NoOutOfRangeAccess ==
    (C19_Mutating /\ C19_ChecksPass) =>
        /\ ~op.oob
        /\ status = "ok"
        /\ DriftSumIsCount(tree)
        /\ LastIsLeaf(tree)

\* C20: a call changes no data value and no relative order of the nodes that
\* stay, and the drift of at most one of them: push_root and pop_back the
\* resulting last node, push_back_* the previous last node,
\* insert_first_child and insert_child_tree the target, erase_leaf the node
\* before the erased one, erase_subtree the anchor, insert_sibling none; a
\* call that ends in a contract violation changes nothing.
C20_Inserted ==
    CASE op.name = "insert_child_tree" -> Len(op.range)
      [] op.name \in {"insert_first_child", "insert_sibling", "push_root",
                      "push_back_drifted", "push_back_child",
                      "push_back_sibling", "push_back_level"} -> 1
      [] OTHER -> 0

C20_Erased ==
    CASE op.name = "pop_back" -> {Len(old) - 1}
      [] op.name = "erase_leaf" -> {op.pos}
      [] op.name = "erase_subtree" -> Descendants(old, op.pos)
      [] OTHER -> {}

\* where the old node j is after the call
C20_NewPos(j) ==
    CASE op.name = "push_root" -> j + 1
      [] op.name \in {"insert_first_child", "insert_child_tree"} ->
            IF j <= op.pos THEN j ELSE j + C20_Inserted
      [] op.name = "insert_sibling" -> IF j < op.pos THEN j ELSE j + 1
      [] OTHER -> j - Cardinality({e \in C20_Erased : e < j})

\* the one old node whose drift the call may change
C20_Rethreaded ==
    CASE op.name = "push_root" -> {Len(old) - 1}
      [] op.name = "pop_back" -> {Len(old) - 2}
      [] op.name \in {"push_back_drifted", "push_back_child",
                      "push_back_sibling", "push_back_level"} -> {Len(old) - 1}
      [] op.name \in {"insert_first_child", "insert_child_tree"} -> {op.pos}
      [] op.name = "erase_leaf" -> {op.pos - 1}
      [] op.name = "erase_subtree" -> {op.pos}
      [] OTHER -> {}

C20_OnlyOneDriftChanges ==
    C19_Mutating =>
        IF status = "ok"
        THEN LET kept == NodePositions(old) \ C20_Erased
             IN  /\ Len(tree) = Cardinality(kept) + C20_Inserted
                 /\ \A j \in kept :
                        /\ C20_NewPos(j) \in NodePositions(tree)
                        /\ At(tree, C20_NewPos(j)).data = At(old, j).data
                        /\ \A k \in kept : j < k => C20_NewPos(j) < C20_NewPos(k)
                 /\ Cardinality(C20_Rethreaded) <= 1
                 /\ \A j \in kept :
                        At(tree, C20_NewPos(j)).drift # At(old, j).drift
                            => j \in C20_Rethreaded
        ELSE tree = old

C20_Witness ==
    /\ Succeeded("insert_first_child")
    /\ op.pos >= 1
    /\ op.pos < Len(old) - 1
    /\ At(tree, op.pos).drift # At(old, op.pos).drift
    /\ At(old, op.pos + 1).data # op.data
    /\ At(tree, op.pos + 2) = At(old, op.pos + 1)

\* C21: on every reachable tree, for every position p whose node is a leaf
\* and every non-empty range that is a valid encoding, insert_child_tree(p,
\* range) passes its assert, the walk of erase_subtree of the view anchored
\* at p stays inside the vector and removes the inserted nodes, and the
\* vector is again the original: same data and same drift at every
\* position, the drift of p included.
C21_InsertThenEraseIsIdentity ==
    status = "ok" =>
        \A p \in NodePositions(tree), range \in Ranges \ {<<>>} :
            is_leaf(At(tree, p)) =>
                LET t == InsertChildTree(tree, p, range)
                    st_it == iterator_begin(t, p)
                    w == SubtreeWalk(t, st_it, st_it.level)
                IN  /\ p # size(tree)
                    /\ Len(t) = Len(tree) + Len(range)
                    /\ ~w.oob
                    /\ w.it = p + 1 + Len(range)
                    /\ EraseSubtree(t, p) = tree

C21_Witness ==
    /\ Succeeded("erase_subtree")
    /\ op.pos >= 1
    /\ is_leaf(At(tree, op.pos))
    /\ At(tree, op.pos).drift >= 2
    /\ \E range \in Ranges :
            /\ Len(range) = 2
            /\ old = InsertChildTree(tree, op.pos, range)

====
